---- MODULE Spec2Model ----
(***************************************************************************)
(* Cachier 1.3.1: a localStorage wrapper that stores every cached item as  *)
(* three strings (data, type tag, expire time) under three derived keys.   *)
(* JavaScript strings are sequences of one-character strings, so that the  *)
(* conversions of the code (String.replace, toString, parseInt, Number,    *)
(* JSON) are computed and not assumed.                                     *)
(***************************************************************************)
EXTENDS Integers, Sequences, FiniteSets, TLC

----------------------------------------------------------------------------
(* Bounds of the model *)

\* the clock is read at most MaxTick ms after the start, and once more when
\* the default TTL has passed
MaxTick == 1

----------------------------------------------------------------------------
(* JavaScript values: kind is the result of typeof, n the numeric payload   *)
(* (number value, boolean as 0/1, identity of an object), s the string      *)
(* payload. NaN is the number whose s is "NaN".                             *)

Undefined == [kind |-> "undefined", n |-> 0, s |-> <<>>]
Num(n) == [kind |-> "number", n |-> n, s |-> <<>>]
NaN == [kind |-> "number", n |-> 0, s |-> <<"N", "a", "N">>]
Bool(b) == [kind |-> "boolean", n |-> IF b THEN 1 ELSE 0, s |-> <<>>]
Str(s) == [kind |-> "string", n |-> 0, s |-> s]
Obj(id) == [kind |-> "object", n |-> id, s |-> <<>>]
Fn == [kind |-> "function", n |-> 0, s |-> <<>>]

\* the objects of the model: null, the empty object {} and an object whose
\* toJSON method returns undefined
NullObj == Obj(0)
EmptyObj == Obj(1)
NoJsonObj == Obj(2)

IsNaN(v) == v.kind = "number" /\ v.s # <<>>

\* typeof data, as the string that setItem stores under the type key
TypeOf(v) ==
  CASE v.kind = "object" -> <<"o", "b", "j", "e", "c", "t">>
    [] v.kind = "number" -> <<"n", "u", "m", "b", "e", "r">>
    [] v.kind = "boolean" -> <<"b", "o", "o", "l", "e", "a", "n">>
    [] v.kind = "string" -> <<"s", "t", "r", "i", "n", "g">>
    [] v.kind = "function" -> <<"f", "u", "n", "c", "t", "i", "o", "n">>
    [] OTHER -> <<"u", "n", "d", "e", "f", "i", "n", "e", "d">>

\* ToBoolean, as used by  expire || defaultTime
Truthy(v) ==
  CASE v.kind = "undefined" -> FALSE
    [] v.kind = "number" -> ~IsNaN(v) /\ v.n # 0
    [] v.kind = "boolean" -> v.n = 1
    [] v.kind = "string" -> v.s # <<>>
    [] v.kind = "object" -> v # NullObj
    [] OTHER -> TRUE

----------------------------------------------------------------------------
(* Number <-> string conversions *)

Digits == <<"0", "1", "2", "3", "4", "5", "6", "7", "8", "9">>
IsDigit(c) == \E i \in 1..10 : Digits[i] = c
DigitVal(c) == (CHOOSE i \in 1..10 : Digits[i] = c) - 1

RECURSIVE NatToStr(_)
NatToStr(n) ==
  IF n < 10 THEN <<Digits[n + 1]>>
  ELSE NatToStr(n \div 10) \o <<Digits[(n % 10) + 1]>>

\* Number.prototype.toString on an integer or NaN
NumberToString(v) ==
  IF IsNaN(v) THEN <<"N", "a", "N">>
  ELSE IF v.n < 0 THEN <<"-">> \o NatToStr(0 - v.n)
  ELSE NatToStr(v.n)

\* value of the longest prefix of digits of s from position i on
RECURSIVE DigitsPrefixLen(_, _)
DigitsPrefixLen(s, i) ==
  IF i > Len(s) \/ ~IsDigit(s[i]) THEN 0 ELSE 1 + DigitsPrefixLen(s, i + 1)

RECURSIVE DigitsValue(_, _, _)
DigitsValue(s, i, len) ==
  IF len = 0 THEN 0
  ELSE 10 * DigitsValue(s, i, len - 1) + DigitVal(s[i + len - 1])

\* parseInt on a string: optional sign, then the longest prefix of decimal
\* digits; NaN when there is no digit
ParseIntStr(s) ==
  LET neg == Len(s) >= 1 /\ s[1] = "-"
      start == IF Len(s) >= 1 /\ (s[1] = "-" \/ s[1] = "+") THEN 2 ELSE 1
      len == DigitsPrefixLen(s, start)
  IN IF len = 0 THEN NaN
     ELSE Num((IF neg THEN -1 ELSE 1) * DigitsValue(s, start, len))

\* Number(data) on a string: the whole string must be a decimal integer;
\* the empty string is 0
StringToNumber(s) ==
  LET start == IF Len(s) >= 1 /\ s[1] = "-" THEN 2 ELSE 1
      len == DigitsPrefixLen(s, start)
  IN IF s = <<>> THEN Num(0)
     ELSE IF len = 0 \/ start + len - 1 # Len(s) THEN NaN
     ELSE Num((IF start = 2 THEN -1 ELSE 1) * DigitsValue(s, start, len))

\* ToString of a value, as parseInt applies it to its argument and as
\* data.toString() computes it; a function gives its source text, here
\* "f(){}", and an object "[object Object]", here "[o]"
ToStr(v) ==
  CASE v.kind = "number" -> NumberToString(v)
    [] v.kind = "string" -> v.s
    [] v.kind = "boolean" -> IF v.n = 1 THEN <<"t", "r", "u", "e">>
                             ELSE <<"f", "a", "l", "s", "e">>
    [] v.kind = "undefined" -> <<"u", "n", "d", "e", "f", "i", "n", "e", "d">>
    [] v.kind = "function" -> <<"f", "(", ")", "{", "}">>
    [] OTHER -> IF v = NullObj THEN <<"n", "u", "l", "l">> ELSE <<"[", "o", "]">>

parseInt(v) == ParseIntStr(ToStr(v))

----------------------------------------------------------------------------
(* JSON collaborator (JSON-js), on the objects and texts of the model *)

\* Json.stringify: [str |-> TRUE, s |-> text], or str = FALSE when the
\* result is undefined (the object's toJSON returns undefined)
serialize(v) ==
  CASE v = NullObj -> [str |-> TRUE, s |-> <<"n", "u", "l", "l">>]
    [] v = EmptyObj -> [str |-> TRUE, s |-> <<"{", "}">>]
    [] OTHER -> [str |-> FALSE, s |-> <<>>]

\* Json.parse: [ok |-> TRUE, v |-> value], or ok = FALSE when the text is
\* not JSON and the parser throws a SyntaxError
unserialize(s) ==
  CASE s = <<"n", "u", "l", "l">> -> [ok |-> TRUE, v |-> NullObj]
    [] s = <<"{", "}">> -> [ok |-> TRUE, v |-> EmptyObj]
    [] s = <<"t", "r", "u", "e">> -> [ok |-> TRUE, v |-> Bool(TRUE)]
    [] s = <<"f", "a", "l", "s", "e">> -> [ok |-> TRUE, v |-> Bool(FALSE)]
    [] OTHER -> IF s # <<>> /\ ~IsNaN(StringToNumber(s))
                THEN [ok |-> TRUE, v |-> StringToNumber(s)]
                ELSE [ok |-> FALSE, v |-> Undefined]

----------------------------------------------------------------------------
(* Derived keys *)

dataCid == <<"c", "a", "c", "h", "i", "e", "r", ":", "d", "a", "t", "a", ":", "{", "c", "i", "d", "}">>
typeCid == <<"c", "a", "c", "h", "i", "e", "r", ":", "t", "y", "p", "e", ":", "{", "c", "i", "d", "}">>
expireCid == <<"c", "a", "c", "h", "i", "e", "r", ":", "e", "x", "p", "i", "r", "e", ":", "{", "c", "i", "d", "}">>
\* the text matched by the regular expression /\{cid\}/
cidRegEx == <<"{", "c", "i", "d", "}">>
defaultTime == 60 * 60 * 1000

\* first position where p occurs in t, 0 when it does not occur
IndexOf(t, p) ==
  LET hits == {i \in 1..(Len(t) - Len(p) + 1) : SubSeq(t, i, i + Len(p) - 1) = p}
  IN IF hits = {} THEN 0 ELSE CHOOSE i \in hits : \A j \in hits : i <= j

\* the replacement text of String.prototype.replace: in the replacement
\* string r, $$ stands for $, $& for the matched text, $` for the text
\* before the match and $' for the text after it; the pattern has no
\* capture group, so $1..$9 are literal
RECURSIVE GetSubstitution(_, _, _, _, _)
GetSubstitution(r, i, before, matched, after) ==
  IF i > Len(r) THEN <<>>
  ELSE IF r[i] = "$" /\ i < Len(r) /\ r[i + 1] = "$"
    THEN <<"$">> \o GetSubstitution(r, i + 2, before, matched, after)
  ELSE IF r[i] = "$" /\ i < Len(r) /\ r[i + 1] = "&"
    THEN matched \o GetSubstitution(r, i + 2, before, matched, after)
  ELSE IF r[i] = "$" /\ i < Len(r) /\ r[i + 1] = "`"
    THEN before \o GetSubstitution(r, i + 2, before, matched, after)
  ELSE IF r[i] = "$" /\ i < Len(r) /\ r[i + 1] = "'"
    THEN after \o GetSubstitution(r, i + 2, before, matched, after)
  ELSE <<r[i]>> \o GetSubstitution(r, i + 1, before, matched, after)

\* where the regular expression matches in a template: the position of the
\* first match, the text before it and the text after it
Match(template, pattern) ==
  LET at == IndexOf(template, pattern)
  IN [at |-> at,
      before |-> SubSeq(template, 1, at - 1),
      after |-> SubSeq(template, at + Len(pattern), Len(template))]

dataMatch == Match(dataCid, cidRegEx)
typeMatch == Match(typeCid, cidRegEx)
expireMatch == Match(expireCid, cidRegEx)

\* template.replace(cidRegEx, r), m being the match of cidRegEx in the
\* template: the first match is replaced
Replace(m, r) ==
  m.before \o GetSubstitution(r, 1, m.before, cidRegEx, m.after) \o m.after

_prepareCids(cid) ==
  [data |-> Replace(dataMatch, cid),
   type |-> Replace(typeMatch, cid),
   expire |-> Replace(expireMatch, cid)]

----------------------------------------------------------------------------
(* The underlying store: window.localStorage, a map from strings to strings *)

\* localStorage.getItem: null when the key is absent
LsGetItem(st, k) ==
  IF k \in DOMAIN st THEN [null |-> FALSE, s |-> st[k]]
  ELSE [null |-> TRUE, s |-> <<>>]

LsSetItem(st, k, v) ==
  [x \in (DOMAIN st) \cup {k} |-> IF x = k THEN v ELSE st[x]]

LsRemoveItem(st, k) == [x \in (DOMAIN st) \ {k} |-> st[x]]

EmptyStore == [x \in {} |-> <<>>]

----------------------------------------------------------------------------
(* The operations of Cachier as functions of the store st, of lsExists     *)
(* (ls), of the clock reading t and of the position of the fault the store *)
(* raises: fault = 0 for none, fault = i when the i-th write or delete of  *)
(* the call throws.                                                        *)

_exists(st, ls, cacheId) ==
  LET cid == _prepareCids(cacheId)
  IN IF ls THEN ~LsGetItem(st, cid.data).null ELSE FALSE

\* removeItem that forgets the expire key
removeItemStoreKeepsExpire(st, ls, cacheId, fault) ==
  LET cid == _prepareCids(cacheId)
      f == IF ls THEN fault ELSE 1
      s1 == IF f = 1 THEN st ELSE LsRemoveItem(st, cid.data)
      s2 == IF f \in {1, 2} THEN s1 ELSE LsRemoveItem(s1, cid.type)
  IN s2

\* the three removeItem calls of removeItem, up to the one that throws;
\* without window.localStorage the first call throws a TypeError
removeItemStore(st, ls, cacheId, fault) ==
  LET cid == _prepareCids(cacheId)
      f == IF ls THEN fault ELSE 1
      s1 == IF f = 1 THEN st ELSE LsRemoveItem(st, cid.data)
      s2 == IF f \in {1, 2} THEN s1 ELSE LsRemoveItem(s1, cid.type)
      s3 == IF f \in {1, 2, 3} THEN s2 ELSE LsRemoveItem(s2, cid.expire)
  IN s3

\* the value returned by a removeItem whose missing store goes unnoticed
removeItemReturnIgnoresStore(ls, fault) == fault = 0

\* the value returned by removeItem
removeItemReturn(ls, fault) == ls /\ fault = 0

\* setItem that forgets to write the type tag
setItemWritesNoType(st, ls, cid, data, dataType, expireTime, fault) ==
  LET f == IF ls THEN fault ELSE 1
      s1 == IF f = 1 THEN st ELSE LsSetItem(st, cid.data, data)
      s3 == IF f \in {1, 2, 3} THEN s1 ELSE LsSetItem(s1, cid.expire, expireTime)
  IN s3

\* the three setItem calls of setItem, up to the one that throws
setItemWrites(st, ls, cid, data, dataType, expireTime, fault) ==
  LET f == IF ls THEN fault ELSE 1
      s1 == IF f = 1 THEN st ELSE LsSetItem(st, cid.data, data)
      s2 == IF f \in {1, 2} THEN s1 ELSE LsSetItem(s1, cid.type, dataType)
      s3 == IF f \in {1, 2, 3} THEN s2 ELSE LsSetItem(s2, cid.expire, expireTime)
  IN s3

\* the switch of setItem with the object case calling toString in place of
\* Json.stringify
setItemConvertNoStringify(data) ==
  CASE data.kind = "function" ->
         [rejected |-> TRUE, raised |-> FALSE, str |-> FALSE, s |-> <<>>]
    [] data.kind = "string" ->
         [rejected |-> FALSE, raised |-> FALSE, str |-> TRUE, s |-> data.s]
    [] data.kind = "undefined" ->
         [rejected |-> FALSE, raised |-> TRUE, str |-> FALSE, s |-> <<>>]
    [] OTHER ->
         [rejected |-> FALSE, raised |-> FALSE, str |-> TRUE, s |-> ToStr(data)]

\* the switch of setItem without the function case: a function falls to the
\* default branch and is stored as its source text
setItemConvertFunctionAsText(data) ==
  CASE data.kind = "object" ->
         [rejected |-> FALSE, raised |-> FALSE, str |-> serialize(data).str,
          s |-> serialize(data).s]
    [] data.kind = "string" ->
         [rejected |-> FALSE, raised |-> FALSE, str |-> TRUE, s |-> data.s]
    [] data.kind = "undefined" ->
         [rejected |-> FALSE, raised |-> TRUE, str |-> FALSE, s |-> <<>>]
    [] OTHER ->
         [rejected |-> FALSE, raised |-> FALSE, str |-> TRUE, s |-> ToStr(data)]

\* the switch of setItem on typeof data: rejected = TRUE when setItem
\* returns false at once (a function); otherwise the string to store, with
\* str = FALSE when the converted data is not a string and raised = TRUE
\* when the conversion throws (undefined has no toString)
setItemConvert(data) ==
  CASE data.kind = "function" ->
         [rejected |-> TRUE, raised |-> FALSE, str |-> FALSE, s |-> <<>>]
    [] data.kind = "object" ->
         [rejected |-> FALSE, raised |-> FALSE, str |-> serialize(data).str,
          s |-> serialize(data).s]
    [] data.kind = "string" ->
         [rejected |-> FALSE, raised |-> FALSE, str |-> TRUE, s |-> data.s]
    [] data.kind = "undefined" ->
         [rejected |-> FALSE, raised |-> TRUE, str |-> FALSE, s |-> <<>>]
    [] OTHER ->
         [rejected |-> FALSE, raised |-> FALSE, str |-> TRUE, s |-> ToStr(data)]

\* the expire time computed without the default: expire in place of
\* expire || defaultTime
setItemExpireTimeNoDefault(expire, t) ==
  LET p == parseInt(expire)
  IN NumberToString(IF IsNaN(p) THEN NaN ELSE Num(p.n + t))

\* parseInt(expireTime) + (new Date).getTime(), converted to a string
setItemExpireTime(expire, t) ==
  LET expireTime == IF Truthy(expire) THEN expire ELSE Num(defaultTime)
      p == parseInt(expireTime)
  IN NumberToString(IF IsNaN(p) THEN NaN ELSE Num(p.n + t))

\* setItem: the store it leaves, the value it returns and whether it throws
setItem(st, ls, cacheId, data, expire, t, fault) ==
  LET conv == setItemConvert(data)
      cid == _prepareCids(cacheId.s)
      f == IF ls THEN fault ELSE 1
  IN IF cacheId.kind # "string" THEN [store |-> st, val |-> FALSE, raised |-> FALSE]
     ELSE IF conv.rejected THEN [store |-> st, val |-> FALSE, raised |-> FALSE]
     ELSE IF conv.raised THEN [store |-> st, val |-> FALSE, raised |-> TRUE]
     ELSE IF ~conv.str THEN [store |-> st, val |-> FALSE, raised |-> FALSE]
     ELSE [store |-> setItemWrites(st, ls, cid, conv.s, TypeOf(data),
                                   setItemExpireTime(expire, t), fault),
           val |-> f = 0, raised |-> FALSE]

\* the error messages of getItem; NoError is null
NoError == "null"
ErrExpired == "Expired in cache"
ErrUndefined == "Cache key undefined"
ErrNoStore == "The localStorage object is not supported"
ErrFunction == "Function was saved, unable to retrieve the value"
ErrUnknown == "Unknown data type was saved"

\* the result object getItem starts from
myDataInit(cid) ==
  [cids |-> cid, data |-> Str(<<>>), error |-> NoError, result |-> FALSE,
   expires |-> -1]

\* the switch of getItem without the function case and with the string
\* case as default: a function tag or an unknown tag gives the stored text
getItemDecodeTextByDefault(myData, dataType, data) ==
  CASE ~dataType.null /\ dataType.s = <<"o", "b", "j", "e", "c", "t">> ->
         IF ~data.null /\ unserialize(data.s).ok
         THEN [raised |-> FALSE,
               myData |-> [myData EXCEPT !.data = unserialize(data.s).v,
                                         !.result = TRUE]]
         ELSE IF data.null
         THEN [raised |-> FALSE,
               myData |-> [myData EXCEPT !.data = NullObj, !.result = TRUE]]
         ELSE [raised |-> TRUE, myData |-> myData]
    [] ~dataType.null /\ dataType.s = <<"n", "u", "m", "b", "e", "r">> ->
         [raised |-> FALSE,
          myData |-> [myData EXCEPT
                        !.data = IF data.null THEN Num(0) ELSE StringToNumber(data.s),
                        !.result = TRUE]]
    [] ~dataType.null /\ dataType.s = <<"b", "o", "o", "l", "e", "a", "n">> ->
         [raised |-> FALSE,
          myData |-> [myData EXCEPT
                        !.data = Bool(~data.null /\ data.s = <<"t", "r", "u", "e">>),
                        !.result = TRUE]]
    [] OTHER ->
         [raised |-> FALSE,
          myData |-> [myData EXCEPT
                        !.data = IF data.null THEN NullObj ELSE Str(data.s),
                        !.result = TRUE]]

\* the switch of getItem on the stored type tag; dataType and data are
\* results of LsGetItem
getItemDecode(myData, dataType, data) ==
  CASE ~dataType.null /\ dataType.s = <<"o", "b", "j", "e", "c", "t">> ->
         IF ~data.null /\ unserialize(data.s).ok
         THEN [raised |-> FALSE,
               myData |-> [myData EXCEPT !.data = unserialize(data.s).v,
                                         !.result = TRUE]]
         ELSE IF data.null
         THEN [raised |-> FALSE,
               myData |-> [myData EXCEPT !.data = NullObj, !.result = TRUE]]
         ELSE [raised |-> TRUE, myData |-> myData]
    [] ~dataType.null /\ dataType.s = <<"n", "u", "m", "b", "e", "r">> ->
         [raised |-> FALSE,
          myData |-> [myData EXCEPT
                        !.data = IF data.null THEN Num(0) ELSE StringToNumber(data.s),
                        !.result = TRUE]]
    [] ~dataType.null /\ dataType.s = <<"b", "o", "o", "l", "e", "a", "n">> ->
         [raised |-> FALSE,
          myData |-> [myData EXCEPT
                        !.data = Bool(~data.null /\ data.s = <<"t", "r", "u", "e">>),
                        !.result = TRUE]]
    [] ~dataType.null /\ dataType.s = <<"s", "t", "r", "i", "n", "g">> ->
         [raised |-> FALSE,
          myData |-> [myData EXCEPT
                        !.data = IF data.null THEN NullObj ELSE Str(data.s),
                        !.result = TRUE]]
    [] ~dataType.null /\ dataType.s = <<"f", "u", "n", "c", "t", "i", "o", "n">> ->
         [raised |-> FALSE,
          myData |-> [myData EXCEPT !.data = Str(<<>>), !.result = FALSE,
                                    !.error = ErrFunction]]
    [] OTHER ->
         [raised |-> FALSE,
          myData |-> [myData EXCEPT !.data = Str(<<>>), !.result = FALSE,
                                    !.error = ErrUnknown]]

\* the expiry test written as its negation, ~(now >= expireDate), which
\* takes an expiry that is NaN for a live one
getItemLiveUnlessPast(t, expireDate) == IsNaN(expireDate) \/ t < expireDate.n

\* the expiry test with now <= expireDate in place of now < expireDate
getItemLiveInclusive(t, expireDate) == ~IsNaN(expireDate) /\ t <= expireDate.n

\* now < expireDate, false when expireDate is NaN
getItemLive(t, expireDate) == ~IsNaN(expireDate) /\ t < expireDate.n

\* getItem that reports the expiry date itself as the time left
getItemAbsoluteExpires(st, ls, cacheId, t, fault) ==
  LET cid == _prepareCids(cacheId)
      myData == myDataInit(cid)
      expire == LsGetItem(st, cid.expire)
      expireDate == parseInt(IF expire.null THEN NullObj ELSE Str(expire.s))
      dec == getItemDecode([myData EXCEPT !.expires = expireDate.n],
                           LsGetItem(st, cid.type), LsGetItem(st, cid.data))
  IN IF ~ls
     THEN [store |-> st, raised |-> FALSE,
           myData |-> [myData EXCEPT !.error = ErrNoStore]]
     ELSE IF ~_exists(st, ls, cacheId)
     THEN [store |-> st, raised |-> FALSE,
           myData |-> [myData EXCEPT !.error = ErrUndefined]]
     ELSE IF getItemLive(t, expireDate)
     THEN [store |-> st, raised |-> dec.raised, myData |-> dec.myData]
     ELSE [store |-> removeItemStore(st, ls, cacheId, fault), raised |-> FALSE,
           myData |-> [myData EXCEPT !.error = ErrExpired]]

\* getItem without the test of lsExists
getItemUnguarded(st, ls, cacheId, t, fault) ==
  LET cid == _prepareCids(cacheId)
      myData == myDataInit(cid)
      expire == LsGetItem(st, cid.expire)
      expireDate == parseInt(IF expire.null THEN NullObj ELSE Str(expire.s))
      dec == getItemDecode([myData EXCEPT !.expires = expireDate.n - t],
                           LsGetItem(st, cid.type), LsGetItem(st, cid.data))
  IN IF ~_exists(st, ls, cacheId)
     THEN [store |-> st, raised |-> FALSE,
           myData |-> [myData EXCEPT !.error = ErrUndefined]]
     ELSE IF getItemLive(t, expireDate)
     THEN [store |-> st, raised |-> dec.raised, myData |-> dec.myData]
     ELSE [store |-> removeItemStore(st, ls, cacheId, fault), raised |-> FALSE,
           myData |-> [myData EXCEPT !.error = ErrExpired]]

\* getItem: the store it leaves, the object it returns and whether it throws
getItem(st, ls, cacheId, t, fault) ==
  LET cid == _prepareCids(cacheId)
      myData == myDataInit(cid)
      expire == LsGetItem(st, cid.expire)
      expireDate == parseInt(IF expire.null THEN NullObj ELSE Str(expire.s))
      dec == getItemDecode([myData EXCEPT !.expires = expireDate.n - t],
                           LsGetItem(st, cid.type), LsGetItem(st, cid.data))
  IN IF ~ls
     THEN [store |-> st, raised |-> FALSE,
           myData |-> [myData EXCEPT !.error = ErrNoStore]]
     ELSE IF ~_exists(st, ls, cacheId)
     THEN [store |-> st, raised |-> FALSE,
           myData |-> [myData EXCEPT !.error = ErrUndefined]]
     ELSE IF getItemLive(t, expireDate)
     THEN [store |-> st, raised |-> dec.raised, myData |-> dec.myData]
     ELSE [store |-> removeItemStore(st, ls, cacheId, fault), raised |-> FALSE,
           myData |-> [myData EXCEPT !.error = ErrExpired]]

----------------------------------------------------------------------------
(* Version 1.2 of Cachier, on a window.localStorage that is there and does *)
(* not raise. Its setItem and removeItem are those of version 1.3.1 line   *)
(* for line, with ls for window.localStorage; its getItem has no test of   *)
(* lsExists and no call of _exists, and no expires field in its result.    *)

dataCid12 == <<"c", "a", "c", "h", "i", "e", "r", ":", "d", "a", "t", "a", ":",
               "{", "c", "i", "d", "}">>
typeCid12 == <<"c", "a", "c", "h", "i", "e", "r", ":", "t", "y", "p", "e", ":",
               "{", "c", "i", "d", "}">>
expireCid12 == <<"c", "a", "c", "h", "i", "e", "r", ":", "e", "x", "p", "i", "r",
                 "e", ":", "{", "c", "i", "d", "}">>

dataMatch12 == Match(dataCid12, cidRegEx)
typeMatch12 == Match(typeCid12, cidRegEx)
expireMatch12 == Match(expireCid12, cidRegEx)

\* prepareCids whose expire key is derived from the type template
prepareCidsTypeForExpire(cid) ==
  [data |-> Replace(dataMatch12, cid),
   type |-> Replace(typeMatch12, cid),
   expire |-> Replace(typeMatch12, cid)]

prepareCids(cid) ==
  [data |-> Replace(dataMatch12, cid),
   type |-> Replace(typeMatch12, cid),
   expire |-> Replace(expireMatch12, cid)]

\* the three ls.removeItem calls of removeItem
removeItemStore12(st, cacheId) ==
  LET cid == prepareCids(cacheId)
  IN LsRemoveItem(LsRemoveItem(LsRemoveItem(st, cid.data), cid.type),
                  cid.expire)

\* setItem: the store it leaves, the value it returns and whether it throws
setItem12(st, cacheId, data, expire, t) ==
  LET conv == setItemConvert(data)
      cid == prepareCids(cacheId.s)
  IN IF cacheId.kind # "string" THEN [store |-> st, val |-> FALSE, raised |-> FALSE]
     ELSE IF conv.rejected THEN [store |-> st, val |-> FALSE, raised |-> FALSE]
     ELSE IF conv.raised THEN [store |-> st, val |-> FALSE, raised |-> TRUE]
     ELSE IF ~conv.str THEN [store |-> st, val |-> FALSE, raised |-> FALSE]
     ELSE [store |-> LsSetItem(LsSetItem(LsSetItem(st, cid.data, conv.s),
                                         cid.type, TypeOf(data)),
                               cid.expire, setItemExpireTime(expire, t)),
           val |-> TRUE, raised |-> FALSE]

ErrExpired12 == "Expired"

\* the result object getItem starts from
myDataInit12 == [result |-> FALSE, data |-> Str(<<>>), error |-> NoError]

\* getItem: the store it leaves, the object it returns and whether it throws
getItem12(st, cacheId, t) ==
  LET cid == prepareCids(cacheId)
      expire == LsGetItem(st, cid.expire)
      expireDate == parseInt(IF expire.null THEN NullObj ELSE Str(expire.s))
      dec == getItemDecode(myDataInit12, LsGetItem(st, cid.type),
                           LsGetItem(st, cid.data))
  IN IF getItemLive(t, expireDate)
     THEN [store |-> st, raised |-> dec.raised, myData |-> dec.myData]
     ELSE [store |-> removeItemStore12(st, cacheId), raised |-> FALSE,
           myData |-> [myDataInit12 EXCEPT !.error = ErrExpired12]]

----------------------------------------------------------------------------
(* Inputs of the calls *)

\* logical keys; "$" and "$$" are strings that String.replace rewrites
Cids == {<<"a">>, <<"$">>, <<"$", "$">>}
\* data that setItem stores: one value of each supported kind and both
\* booleans
Storable == {Num(7), Bool(TRUE), Bool(FALSE), Str(<<"x">>), EmptyObj}
\* data that setItem does not store: a function, undefined, an object whose
\* JSON text is undefined
Unstorable == {Fn, Undefined, NoJsonObj}
\* the setItem calls <<cacheId, data, expire>> on a store that does not
\* raise: on key "a" every storable value with a TTL of 1 ms, the number 7
\* with the TTL omitted and with a TTL of 0, and the values that are not
\* stored; one call on each of the other keys; one call with a cacheId that
\* is not a string
SetCalls ==
  {<<Str(<<"a">>), d, Num(1)>> : d \in Storable}
  \cup {<<Str(<<"a">>), Num(7), e>> : e \in {Undefined, Num(0)}}
  \cup {<<Str(<<"a">>), d, Undefined>> : d \in Unstorable}
  \cup {<<Str(<<"$">>), Num(7), Num(1)>>,
        <<Str(<<"$", "$">>), Str(<<"x">>), Undefined>>,
        <<Num(5), Undefined, Undefined>>}
\* the setItem calls on a store that raises: two values on key "a", the
\* values that are not stored, a cacheId that is not a string
FaultSetCalls ==
  {<<Str(<<"a">>), Num(7), Num(1)>>, <<Str(<<"a">>), Str(<<"x">>), Undefined>>,
   <<Num(5), Num(7), Undefined>>}
  \cup {<<Str(<<"a">>), d, Undefined>> : d \in Unstorable}
FaultCids == {<<"a">>}
\* where the store raises during a call: nowhere, or at its i-th access
Faults == 0..3
\* the setItem calls on a store that other code writes to
ForeignSetCalls ==
  {<<Str(<<"a">>), Num(7), Undefined>>, <<Str(<<"a">>), Str(<<"x">>), Num(1)>>}
ForeignCids == {<<"a">>}
\* what other code writes: under the type key the tag "function", a tag
\* Cachier does not know and the tag "object"; under the data key a text
\* that is not JSON
ForeignWrites ==
  {<<_prepareCids(<<"a">>).type, <<"f", "u", "n", "c", "t", "i", "o", "n">>>>,
   <<_prepareCids(<<"a">>).type, <<"d", "a", "t", "e">>>>,
   <<_prepareCids(<<"a">>).type, <<"o", "b", "j", "e", "c", "t">>>>,
   <<_prepareCids(<<"a">>).data, <<"{">>>>}
\* the keys other code removes
ForeignRemoves ==
  {_prepareCids(<<"a">>).data, _prepareCids(<<"a">>).type,
   _prepareCids(<<"a">>).expire}
\* the setItem calls with unusual TTLs: a TTL that is not a number, a
\* negative TTL, and an ordinary call to compare with
TtlSetCalls ==
  {<<Str(<<"a">>), Num(7), Str(<<"x">>)>>,
   <<Str(<<"a">>), Num(7), Num(-1)>>,
   <<Str(<<"a">>), Str(<<"x">>), Num(1)>>}
TtlCids == {<<"a">>}
\* the setItem calls made through both versions
VersionSetCalls ==
  {<<Str(<<"a">>), EmptyObj, Num(1)>>,
   <<Str(<<"a">>), Num(7), Undefined>>,
   <<Str(<<"$">>), Str(<<"x">>), Num(1)>>,
   <<Str(<<"a">>), Fn, Undefined>>,
   <<Num(5), Num(7), Undefined>>}
VersionCids == {<<"a">>, <<"$">>}
\* clock readings: up to MaxTick ms after the start, and the moment the
\* default TTL has passed since the start
ClockVals == (0..MaxTick) \cup {defaultTime}
\* the entries of the store: an entry is named by its data key
Entries == {_prepareCids(c).data : c \in Cids}

----------------------------------------------------------------------------
(* State *)

VARIABLES
  store,     \* the contents of window.localStorage
  lsExists,  \* typeof window.localStorage !== "undefined"
  now,       \* (new Date()).getTime()
  ret,       \* the last event: a call with its arguments and outcome
  lastSet    \* per entry, the last setItem call on it that returned true

vars == <<store, lsExists, now, ret, lastSet>>

NoCall ==
  [op |-> "none", cacheId |-> Undefined, data |-> Undefined,
   expire |-> Undefined, fault |-> 0, raised |-> FALSE,
   val |-> FALSE, myData |-> myDataInit(_prepareCids(<<>>))]

NoSet ==
  [set |-> FALSE, cacheId |-> <<>>, data |-> Undefined, expire |-> Undefined,
   at |-> 0, by |-> "none"]

Init ==
  /\ store = EmptyStore
  /\ lsExists \in BOOLEAN
  /\ now = 0
  /\ ret = NoCall
  /\ lastSet = [x \in Entries |-> NoSet]

InitClean ==
  /\ store = EmptyStore
  /\ lsExists = TRUE
  /\ now = 0
  /\ ret = NoCall
  /\ lastSet = [x \in Entries |-> NoSet]

\* an exists that looks at the expiry and evicts an expired entry
ExistsEvicting(c) ==
  LET r == getItem(store, lsExists, c, now, 0)
  IN /\ store' = r.store
     /\ ret' = [NoCall EXCEPT !.op = "exists", !.cacheId = Str(c),
                              !.val = _exists(r.store, lsExists, c)]
     /\ UNCHANGED <<lsExists, now, lastSet>>

\* module.exists(cacheId)
Exists(c) ==
  /\ ret' = [NoCall EXCEPT !.op = "exists", !.cacheId = Str(c),
                           !.val = _exists(store, lsExists, c)]
  /\ UNCHANGED <<store, lsExists, now, lastSet>>

\* module.getItem(cacheId); fault is where the store raises during the
\* removeItem of an expired item
GetItem(c, fault) ==
  LET r == getItem(store, lsExists, c, now, fault)
  IN /\ store' = r.store
     /\ ret' = [NoCall EXCEPT !.op = "get", !.cacheId = Str(c),
                              !.fault = IF r.myData.error = ErrExpired
                                        THEN fault ELSE 0,
                              !.raised = r.raised, !.myData = r.myData]
     /\ UNCHANGED <<lsExists, now, lastSet>>

\* module.setItem(cacheId, data, expire)
SetItem(k, d, e, fault) ==
  LET r == setItem(store, lsExists, k, d, e, now, fault)
  IN /\ store' = r.store
     /\ ret' = [NoCall EXCEPT !.op = "set", !.cacheId = k, !.data = d,
                              !.expire = e, !.fault = fault,
                              !.raised = r.raised, !.val = r.val]
     /\ lastSet' = IF r.val
                   THEN [lastSet EXCEPT
                           ![_prepareCids(k.s).data] =
                             [set |-> TRUE, cacheId |-> k.s, data |-> d,
                              expire |-> e, at |-> now, by |-> "1.3.1"]]
                   ELSE lastSet
     /\ UNCHANGED <<lsExists, now>>

\* module.removeItem(cacheId)
RemoveItem(c, fault) ==
  /\ store' = removeItemStore(store, lsExists, c, fault)
  /\ ret' = [NoCall EXCEPT !.op = "remove", !.cacheId = Str(c),
                           !.fault = fault,
                           !.val = removeItemReturn(lsExists, fault)]
  /\ UNCHANGED <<lsExists, now, lastSet>>

\* getItem(cacheId) of version 1.2; the fields its result does not have
\* stay as in NoCall
GetItem12(c) ==
  LET r == getItem12(store, c, now)
  IN /\ store' = r.store
     /\ ret' = [NoCall EXCEPT !.op = "get12", !.cacheId = Str(c),
                              !.raised = r.raised,
                              !.myData.data = r.myData.data,
                              !.myData.error = r.myData.error,
                              !.myData.result = r.myData.result]
     /\ UNCHANGED <<lsExists, now, lastSet>>

\* setItem(cacheId, data, expire) of version 1.2
SetItem12(k, d, e) ==
  LET r == setItem12(store, k, d, e, now)
  IN /\ store' = r.store
     /\ ret' = [NoCall EXCEPT !.op = "set12", !.cacheId = k, !.data = d,
                              !.expire = e, !.raised = r.raised,
                              !.val = r.val]
     /\ lastSet' = IF r.val
                   THEN [lastSet EXCEPT
                           ![prepareCids(k.s).data] =
                             [set |-> TRUE, cacheId |-> k.s, data |-> d,
                              expire |-> e, at |-> now, by |-> "1.2"]]
                   ELSE lastSet
     /\ UNCHANGED <<lsExists, now>>

\* removeItem(cacheId) of version 1.2
RemoveItem12(c) ==
  /\ store' = removeItemStore12(store, c)
  /\ ret' = [NoCall EXCEPT !.op = "remove12", !.cacheId = Str(c),
                           !.val = TRUE]
  /\ UNCHANGED <<lsExists, now, lastSet>>

\* time passes
Tick ==
  /\ \E t \in ClockVals : t > now /\ now' = t
  /\ ret' = [NoCall EXCEPT !.op = "tick"]
  /\ UNCHANGED <<store, lsExists, lastSet>>

\* other code sharing window.localStorage writes a string under a key
ForeignWrite(k, s) ==
  /\ lsExists
  /\ store' = LsSetItem(store, k, s)
  /\ ret' = [NoCall EXCEPT !.op = "foreign"]
  /\ UNCHANGED <<lsExists, now, lastSet>>

\* other code sharing window.localStorage removes a key
ForeignRemove(k) ==
  /\ lsExists
  /\ k \in DOMAIN store
  /\ store' = LsRemoveItem(store, k)
  /\ ret' = [NoCall EXCEPT !.op = "foreign"]
  /\ UNCHANGED <<lsExists, now, lastSet>>

\* the calls on a store that is there and never raises
NextClean ==
  \/ \E c \in Cids : Exists(c)
  \/ \E c \in Cids : GetItem(c, 0)
  \/ \E call \in SetCalls : SetItem(call[1], call[2], call[3], 0)
  \/ \E c \in Cids : RemoveItem(c, 0)
  \/ Tick

\* the calls on a store that may be missing and may raise at any access
NextFault ==
  \/ \E c \in FaultCids : Exists(c)
  \/ \E c \in FaultCids, f \in Faults : GetItem(c, f)
  \/ \E call \in FaultSetCalls, f \in Faults :
       SetItem(call[1], call[2], call[3], f)
  \/ \E c \in FaultCids, f \in Faults : RemoveItem(c, f)
  \/ Tick

\* the calls on a store that other code writes to
NextForeign ==
  \/ \E c \in ForeignCids : Exists(c)
  \/ \E c \in ForeignCids : GetItem(c, 0)
  \/ \E call \in ForeignSetCalls : SetItem(call[1], call[2], call[3], 0)
  \/ \E c \in ForeignCids : RemoveItem(c, 0)
  \/ Tick
  \/ \E w \in ForeignWrites : ForeignWrite(w[1], w[2])
  \/ \E k \in ForeignRemoves : ForeignRemove(k)

\* the calls with unusual TTLs on a store whose writes may raise
NextTtl ==
  \/ \E c \in TtlCids : Exists(c)
  \/ \E c \in TtlCids : GetItem(c, 0)
  \/ \E call \in TtlSetCalls, f \in Faults :
       SetItem(call[1], call[2], call[3], f)
  \/ \E c \in TtlCids : RemoveItem(c, 0)
  \/ Tick

\* the calls of both versions on one store that is there and never raises,
\* as on a page that moves from version 1.2 to version 1.3.1
NextVersions ==
  \/ \E c \in VersionCids : Exists(c)
  \/ \E c \in VersionCids : GetItem(c, 0)
  \/ \E call \in VersionSetCalls : SetItem(call[1], call[2], call[3], 0)
  \/ \E c \in VersionCids : RemoveItem(c, 0)
  \/ \E c \in VersionCids : GetItem12(c)
  \/ \E call \in VersionSetCalls : SetItem12(call[1], call[2], call[3])
  \/ \E c \in VersionCids : RemoveItem12(c)
  \/ Tick

Next == NextClean \/ NextFault \/ NextForeign \/ NextTtl \/ NextVersions

Spec == Init /\ [][Next]_vars
SpecClean == InitClean /\ [][NextClean]_vars
SpecFault == Init /\ [][NextFault]_vars
SpecForeign == InitClean /\ [][NextForeign]_vars
SpecTtl == InitClean /\ [][NextTtl]_vars
SpecFrame == Init /\ [][NextForeign]_vars
SpecVersions == InitClean /\ [][NextVersions]_vars

----------------------------------------------------------------------------
(* Vocabulary of the properties *)

\* the three derived keys of logical key c
DerivedKeys(c) ==
  {_prepareCids(c).data, _prepareCids(c).type, _prepareCids(c).expire}
AllPresent(st, c) == DerivedKeys(c) \subseteq DOMAIN st
AllAbsent(st, c) == DerivedKeys(c) \cap DOMAIN st = {}
\* the stored strings of logical key c
StringsOf(st, c) == [x \in DerivedKeys(c) \cap DOMAIN st |-> st[x]]
\* in the history l, the last setItem call that returned true on the entry
\* of logical key c
LastSetIn(l, c) == l[_prepareCids(c).data]
LastSetOf(c) == LastSetIn(lastSet, c)
\* in the history l, the last successful setItem on the entry of c was
\* setItem(c, v, ttl) with a number ttl > 0, and clock reading t is at least
\* ttl more than the reading at that call
SetThenExpired(l, c, t) ==
  /\ LastSetIn(l, c).set
  /\ LastSetIn(l, c).cacheId = c
  /\ LastSetIn(l, c).expire.kind = "number"
  /\ LastSetIn(l, c).expire.n > 0
  /\ t >= LastSetIn(l, c).at + LastSetIn(l, c).expire.n
\* in the history l, the last successful setItem on the entry of c was
\* setItem(c, v) with the TTL omitted or falsy, less than defaultTime before
\* clock reading t
SetByDefault(l, c, t) ==
  /\ LastSetIn(l, c).set
  /\ LastSetIn(l, c).cacheId = c
  /\ ~Truthy(LastSetIn(l, c).expire)
  /\ t - LastSetIn(l, c).at < defaultTime

\* the type tags getItem has a case for
KnownTags ==
  {<<"o", "b", "j", "e", "c", "t">>, <<"n", "u", "m", "b", "e", "r">>,
   <<"b", "o", "o", "l", "e", "a", "n">>, <<"s", "t", "r", "i", "n", "g">>,
   <<"f", "u", "n", "c", "t", "i", "o", "n">>}
\* in store st the value string of logical key c is present
ValuePresent(st, c) == _prepareCids(c).data \in DOMAIN st
\* in store st the expiry string of c is present and reads as an integer
ExpiryUsable(st, c) ==
  /\ _prepareCids(c).expire \in DOMAIN st
  /\ ~IsNaN(ParseIntStr(st[_prepareCids(c).expire]))
\* the stored expiry of c, where it is usable
StoredExpiry(st, c) == ParseIntStr(st[_prepareCids(c).expire]).n
\* in store st at clock reading t, c has its value string and an expiry in
\* the future
LiveEntry(st, c, t) ==
  /\ ValuePresent(st, c)
  /\ ExpiryUsable(st, c)
  /\ StoredExpiry(st, c) > t
\* the stored type tag of c is the string tag
TagIs(st, c, tag) ==
  /\ _prepareCids(c).type \in DOMAIN st
  /\ st[_prepareCids(c).type] = tag

\* the TTL a setItem called with the argument expire works with
SetTtl(expire) ==
  IF Truthy(expire) THEN parseInt(expire).n ELSE defaultTime
\* getItem(c) on store st at clock reading t is a hit
Hit(st, ls, c, t) ==
  /\ ~getItem(st, ls, c, t, 0).raised
  /\ getItem(st, ls, c, t, 0).myData.result
\* the time left that getItem(c) reports on store st at clock reading t
TimeLeft(st, ls, c, t) == getItem(st, ls, c, t, 0).myData.expires

----------------------------------------------------------------------------
(* Properties *)

\* C1 round trip: a setItem(k, v, t) with v an object, a number, a boolean
\* or a string and t > 0 that returns true, followed at once (same clock
\* reading) by getItem(k), gives result = true and data equal to v.
C1_RoundTrip ==
  [][(/\ ret.op = "set" /\ ret.val
      /\ ret.data.kind \in {"object", "number", "boolean", "string"}
      /\ ret.expire.kind = "number" /\ ret.expire.n > 0
      /\ ret'.op = "get" /\ ret'.cacheId = ret.cacheId /\ now' = now)
     => (/\ ~ret'.raised
         /\ ret'.myData.result
         /\ ret'.myData.data = ret.data)]_vars

\* C1 witness: a getItem has just returned the object stored by a setItem
\* made at the same clock reading with a TTL of 1 ms.
C1_Witness ==
  /\ ret.op = "get" /\ ret.cacheId = Str(<<"a">>)
  /\ ret.myData.result /\ ret.myData.data = EmptyObj
  /\ LastSetOf(<<"a">>).set /\ LastSetOf(<<"a">>).data = EmptyObj
  /\ LastSetOf(<<"a">>).expire = Num(1) /\ LastSetOf(<<"a">>).at = now

\* C2 as stated: after a successful setItem(k, v, t), t > 0, at clock T that
\* no other setItem on k's entry followed, every getItem(k) at a clock
\* reading >= T + t returns result = false with the error "Expired in cache"
\* and leaves all three derived strings of k absent, so exists(k) is false.
C2_Original ==
  (/\ ret.op = "get"
   /\ SetThenExpired(lastSet, ret.cacheId.s, now))
  => (/\ ~ret.myData.result
      /\ ret.myData.error = ErrExpired
      /\ AllAbsent(store, ret.cacheId.s)
      /\ ~_exists(store, lsExists, ret.cacheId.s))

\* C2 amended: under the same conditions every getItem(k) at a clock reading
\* >= T + t returns result = false and leaves all three derived strings of k
\* absent and exists(k) false; its error is "Expired in cache" when the data
\* string of k was still stored before the call and "Cache key undefined"
\* when it was not (an earlier getItem or removeItem deleted it).
C2_ExpiredThenEvicted ==
  [][(/\ ret'.op = "get"
      /\ SetThenExpired(lastSet', ret'.cacheId.s, now'))
     => (/\ ~ret'.raised
         /\ ~ret'.myData.result
         /\ ret'.myData.error =
              IF _exists(store, lsExists, ret'.cacheId.s)
              THEN ErrExpired ELSE ErrUndefined
         /\ AllAbsent(store', ret'.cacheId.s)
         /\ ~_exists(store', lsExists, ret'.cacheId.s))]_vars

\* C2 witness: a getItem at exactly T + t has reported the entry expired and
\* evicted it.
C2_Witness ==
  /\ ret.op = "get"
  /\ SetThenExpired(lastSet, ret.cacheId.s, now)
  /\ now = LastSetOf(ret.cacheId.s).at + LastSetOf(ret.cacheId.s).expire.n
  /\ ret.myData.error = ErrExpired
  /\ AllAbsent(store, ret.cacheId.s)

\* C3 as stated: whenever setItem returns false, the store is exactly what
\* it was before the call.
C3_NothingWrittenOnFailure ==
  [][(ret'.op = "set" /\ ~ret'.val /\ ~ret'.raised) => store' = store]_vars

\* C4 all or none: on a store that starts empty and never raises, after any
\* sequence of calls the data, type and expire strings of every logical key
\* are all three present or all three absent.
C4_AllOrNone ==
  \A c \in Cids : AllPresent(store, c) \/ AllAbsent(store, c)

\* C4 witness: one entry has been written whole and another, written
\* earlier, has been deleted whole.
C4_Witness ==
  /\ AllPresent(store, <<"$">>)
  /\ AllAbsent(store, <<"a">>)
  /\ LastSetOf(<<"a">>).set

\* C5 as stated: no call raises a fault.
C5_NoCallRaises == ~ret.raised

\* C6 as stated: a getItem that returns result = false returns data = "", an
\* error that is not null and expires = -1; a getItem that returns
\* result = true returns error = null.
C6_FailedGetRecord ==
  (ret.op = "get" /\ ~ret.raised)
  => IF ret.myData.result
     THEN ret.myData.error = NoError
     ELSE /\ ret.myData.data = Str(<<>>)
          /\ ret.myData.error # NoError
          /\ ret.myData.expires = -1

\* C7 function rejection: setItem(k, f) with f a function returns false and
\* leaves every stored string unchanged, so getItem(k) returns what it
\* returned before.
C7_FunctionRejected ==
  [][(ret'.op = "set" /\ ret'.data.kind = "function")
     => (/\ ~ret'.val
         /\ ~ret'.raised
         /\ store' = store
         /\ \A c \in Cids :
              getItem(store', lsExists, c, now, 0).myData
                = getItem(store, lsExists, c, now, 0).myData)]_vars

\* C7 witness: setItem with a function has just returned false on a key
\* that holds a live entry.
C7_Witness ==
  /\ ret.op = "set" /\ ret.data = Fn /\ ret.cacheId = Str(<<"a">>) /\ ~ret.val
  /\ AllPresent(store, <<"a">>)
  /\ getItem(store, lsExists, <<"a">>, now, 0).myData.result

\* C8 as stated: for distinct logical keys k1 and k2, a setItem, removeItem
\* or getItem on k1 leaves the three stored strings of k2 unchanged, and
\* getItem(k2) returns the same result and data as before.
C8_KeyIsolation ==
  [][\A k2 \in Cids :
       (/\ ret'.op \in {"set", "remove", "get"}
        /\ ret'.cacheId.kind = "string"
        /\ ret'.cacheId.s # k2)
       => (/\ StringsOf(store', k2) = StringsOf(store, k2)
           /\ getItem(store', lsExists, k2, now, 0).myData.result
                = getItem(store, lsExists, k2, now, 0).myData.result
           /\ getItem(store', lsExists, k2, now, 0).myData.data
                = getItem(store, lsExists, k2, now, 0).myData.data)]_vars

\* C9 idempotent removal: on a store that is there and does not raise,
\* removeItem(k) returns true, leaves the three derived strings of k absent
\* and every other stored string unchanged; on a key with no entry it leaves
\* the store identical, and a second removeItem(k) changes nothing more.
C9_IdempotentRemoval ==
  [][(ret'.op = "remove" /\ ret'.fault = 0 /\ lsExists)
     => (/\ ret'.val
         /\ AllAbsent(store', ret'.cacheId.s)
         /\ DOMAIN store' = (DOMAIN store) \ DerivedKeys(ret'.cacheId.s)
         /\ \A x \in DOMAIN store' : store'[x] = store[x]
         /\ (AllAbsent(store, ret'.cacheId.s) => store' = store)
         /\ removeItemStore(store', lsExists, ret'.cacheId.s, 0) = store')]_vars

\* C9 witness: removeItem has just deleted an entry while another entry
\* stays stored.
C9_Witness ==
  /\ ret.op = "remove" /\ ret.cacheId = Str(<<"a">>) /\ ret.val
  /\ LastSetOf(<<"a">>).set
  /\ AllAbsent(store, <<"a">>)
  /\ AllPresent(store, <<"$">>)

\* C10 default TTL: a successful setItem(k, v) at clock T with the TTL
\* omitted or falsy stores the expiry T + 3,600,000, and a getItem(k) at
\* clock T + d, 0 <= d < 3,600,000, on the entry still stored returns
\* result = true with expires = 3,600,000 - d.
C10_DefaultTtl ==
  [][/\ (ret'.op = "set" /\ ret'.val /\ ~Truthy(ret'.expire))
          => /\ _prepareCids(ret'.cacheId.s).expire \in DOMAIN store'
             /\ ParseIntStr(store'[_prepareCids(ret'.cacheId.s).expire])
                  = Num(now + 3600000)
     /\ (/\ ret'.op = "get"
         /\ SetByDefault(lastSet', ret'.cacheId.s, now')
         /\ _exists(store, lsExists, ret'.cacheId.s))
          => /\ ret'.myData.result
             /\ ret'.myData.expires
                  = 3600000 - (now - LastSetOf(ret'.cacheId.s).at)]_vars

\* C10 witness: a getItem made 3,599,999 ms after a setItem without TTL has
\* returned the value with 1 ms left.
C10_Witness ==
  /\ ret.op = "get" /\ ret.myData.result
  /\ SetByDefault(lastSet, ret.cacheId.s, now)
  /\ now - LastSetOf(ret.cacheId.s).at = 3599999
  /\ ret.myData.expires = 1

\* C11 function and unknown tags: a getItem(k) on an entry whose value
\* string is present and whose expiry is in the future returns result =
\* false, data = "" and the function error when the stored type tag is
\* "function", and result = false, data = "" and the unknown-type error
\* when the tag is a string other than object, number, boolean, string and
\* function.
C11_TagErrors ==
  [][(/\ ret'.op = "get"
      /\ lsExists
      /\ LiveEntry(store, ret'.cacheId.s, now))
     => (/\ TagIs(store, ret'.cacheId.s, <<"f", "u", "n", "c", "t", "i", "o", "n">>)
            => (/\ ~ret'.raised
                /\ ~ret'.myData.result
                /\ ret'.myData.error = ErrFunction
                /\ ret'.myData.data = Str(<<>>))
         /\ (/\ _prepareCids(ret'.cacheId.s).type \in DOMAIN store
             /\ store[_prepareCids(ret'.cacheId.s).type] \notin KnownTags)
            => (/\ ~ret'.raised
                /\ ~ret'.myData.result
                /\ ret'.myData.error = ErrUnknown
                /\ ret'.myData.data = Str(<<>>)))]_vars

\* C11 witness: a getItem has reported the unknown-type error on a live
\* entry whose tag other code set to "date".
C11_Witness ==
  /\ ret.op = "get"
  /\ LiveEntry(store, ret.cacheId.s, now)
  /\ TagIs(store, ret.cacheId.s, <<"d", "a", "t", "e">>)
  /\ ret.myData.error = ErrUnknown
  /\ ~ret.myData.result

\* C12 unavailable store, read side: without window.localStorage every
\* exists(k) returns false and every getItem(k) returns result = false with
\* the error "The localStorage object is not supported"; neither call
\* raises and neither changes the store.
C12_ReadsWithoutStore ==
  [][~lsExists
     => (/\ ret'.op = "exists"
            => (~ret'.val /\ ~ret'.raised /\ store' = store)
         /\ ret'.op = "get"
            => (/\ ~ret'.myData.result
                /\ ret'.myData.error = ErrNoStore
                /\ ~ret'.raised
                /\ store' = store))]_vars

\* C12 witness: without window.localStorage a getItem has returned the
\* store-unavailable error.
C12_Witness ==
  /\ ~lsExists
  /\ ret.op = "get"
  /\ ~ret.myData.result
  /\ ret.myData.error = ErrNoStore

\* C13 as stated: without window.localStorage, setItem(k, v) with a string
\* k and a storable v, and removeItem(k), raise a fault to the caller.
C13_Original ==
  (/\ ~lsExists
   /\ \/ ret.op = "remove"
      \/ /\ ret.op = "set"
         /\ ret.cacheId.kind = "string"
         /\ ret.data \in Storable)
  => ret.raised

\* C13 amended: without window.localStorage, setItem(k, v) with a string k
\* and a storable v, and removeItem(k), have no test of lsExists, but the
\* TypeError of their first store call is raised inside their try: both
\* return false, raise nothing to the caller and leave the store unchanged.
C13_WritesWithoutStore ==
  [][(/\ ~lsExists
      /\ \/ ret'.op = "remove"
         \/ /\ ret'.op = "set"
            /\ ret'.cacheId.kind = "string"
            /\ ret'.data \in Storable)
     => (/\ ~ret'.raised
         /\ ~ret'.val
         /\ store' = store)]_vars

\* C13 witness: without window.localStorage a setItem of the number 7 has
\* returned false without raising.
C13_Witness ==
  /\ ~lsExists
  /\ ret.op = "set"
  /\ ret.cacheId = Str(<<"a">>)
  /\ ret.data = Num(7)
  /\ ret.fault = 0
  /\ ~ret.val
  /\ ~ret.raised

\* C14 as stated: on a store that starts empty and may raise at the first,
\* second or third write of a setItem, every getItem(k) that returns
\* result = true returns the data passed to the most recent setItem(k, ...)
\* that returned true.
C14_HitReturnsLastStored ==
  (ret.op = "get" /\ ~ret.raised /\ ret.myData.result)
  => (/\ LastSetOf(ret.cacheId.s).set
      /\ ret.myData.data = LastSetOf(ret.cacheId.s).data)

\* C15 no usable expiry, never live: on a store whose deletes do not raise,
\* a getItem(k) that finds the value string of k present and the expiry
\* string of k absent or not an integer returns result = false with the
\* error "Expired in cache" and leaves the three derived strings of k
\* absent; a setItem(k, v, ttl) with a negative ttl whose writes do not
\* raise returns true, and the getItem(k) that next finds its entry reports
\* it expired and evicts it.
C15_NoExpiryNeverLive ==
  [][/\ (/\ ret'.op = "get"
         /\ ValuePresent(store, ret'.cacheId.s)
         /\ ~ExpiryUsable(store, ret'.cacheId.s))
          => (/\ ~ret'.raised
              /\ ~ret'.myData.result
              /\ ret'.myData.error = ErrExpired
              /\ AllAbsent(store', ret'.cacheId.s))
     /\ (/\ ret'.op = "set"
         /\ ret'.fault = 0
         /\ ret'.cacheId.kind = "string"
         /\ ret'.data \in Storable
         /\ ret'.expire.kind = "number"
         /\ ret'.expire.n < 0)
          => (ret'.val /\ ~ret'.raised)
     /\ (/\ ret'.op = "get"
         /\ ValuePresent(store, ret'.cacheId.s)
         /\ LastSetIn(lastSet, ret'.cacheId.s).set
         /\ LastSetIn(lastSet, ret'.cacheId.s).expire.kind = "number"
         /\ LastSetIn(lastSet, ret'.cacheId.s).expire.n < 0)
          => (/\ ~ret'.raised
              /\ ~ret'.myData.result
              /\ ret'.myData.error = ErrExpired
              /\ AllAbsent(store', ret'.cacheId.s))]_vars

\* C15 witness: a getItem has reported expired and evicted the entry that a
\* setItem with the TTL "x" had stored with the expiry "NaN".
C15_Witness ==
  /\ ret.op = "get"
  /\ ret.myData.error = ErrExpired
  /\ ~ret.myData.result
  /\ LastSetOf(ret.cacheId.s).set
  /\ LastSetOf(ret.cacheId.s).expire = Str(<<"x">>)
  /\ AllAbsent(store, ret.cacheId.s)

\* C16 lazy eviction frame: exists(k) never changes the store; getItem(k)
\* leaves the store unchanged when window.localStorage is missing, when the
\* value string of k is absent and when the entry of k is live, whatever its
\* type tag; the passing of time changes neither the store nor the answer
\* of exists; so the calls of Cachier that change the store are setItem,
\* removeItem and a getItem that finds the entry of its own key expired,
\* and exists(k) returns true on an expired entry that was not read.
C16_LazyEvictionFrame ==
  [][/\ ret'.op = "exists" => store' = store
     /\ (/\ ret'.op = "get"
         /\ \/ ~lsExists
            \/ ~ValuePresent(store, ret'.cacheId.s)
            \/ LiveEntry(store, ret'.cacheId.s, now))
          => store' = store
     /\ ret'.op = "tick"
          => (/\ store' = store
              /\ \A c \in Cids :
                   _exists(store', lsExists', c) = _exists(store, lsExists, c))
     /\ (store' # store /\ ret'.op # "foreign")
          => \/ ret'.op \in {"set", "remove"}
             \/ /\ ret'.op = "get"
                /\ ValuePresent(store, ret'.cacheId.s)
                /\ ~LiveEntry(store, ret'.cacheId.s, now)
                /\ \A x \in (DOMAIN store) \ DerivedKeys(ret'.cacheId.s) :
                     x \in DOMAIN store' /\ store'[x] = store[x]
     /\ (/\ ret'.op = "exists"
         /\ lsExists
         /\ ValuePresent(store, ret'.cacheId.s)
         /\ ~LiveEntry(store, ret'.cacheId.s, now))
          => ret'.val]_vars

\* C16 witness: exists has returned true on an entry whose TTL has passed
\* and whose three strings are still stored.
C16_Witness ==
  /\ ret.op = "exists"
  /\ ret.val
  /\ SetThenExpired(lastSet, ret.cacheId.s, now)
  /\ AllPresent(store, ret.cacheId.s)
  /\ ~LiveEntry(store, ret.cacheId.s, now)

\* C17 time left on a hit: a getItem(k) at clock reading N that returns
\* result = true returns expires = E - N, E being the stored expiry of k,
\* with 0 < expires <= the TTL of the setItem that wrote the entry; and as
\* long as no setItem writes the entry of k, the time left that getItem(k)
\* reports never increases from one clock reading to a later one.
C17_RemainingTtl ==
  [][/\ (ret'.op = "get" /\ ~ret'.raised /\ ret'.myData.result)
          => (/\ ExpiryUsable(store, ret'.cacheId.s)
              /\ ret'.myData.expires = StoredExpiry(store, ret'.cacheId.s) - now
              /\ ret'.myData.expires > 0
              /\ LastSetIn(lastSet, ret'.cacheId.s).set
              /\ ret'.myData.expires
                   <= SetTtl(LastSetIn(lastSet, ret'.cacheId.s).expire))
     /\ \A c \in Cids :
          (/\ Hit(store, lsExists, c, now)
           /\ Hit(store', lsExists', c, now')
           /\ ~(/\ ret'.op = "set"
                /\ ret'.cacheId.kind = "string"
                /\ _prepareCids(ret'.cacheId.s).data = _prepareCids(c).data))
          => TimeLeft(store', lsExists', c, now') <= TimeLeft(store, lsExists, c, now)]_vars

\* C17 witness: a getItem made 1 ms after a setItem without TTL has returned
\* the value with 3,599,999 ms left.
C17_Witness ==
  /\ ret.op = "get" /\ ret.myData.result
  /\ LastSetOf(ret.cacheId.s).set
  /\ SetTtl(LastSetOf(ret.cacheId.s).expire) = 3600000
  /\ now = LastSetOf(ret.cacheId.s).at + 1
  /\ ret.myData.expires = 3599999
  /\ StoredExpiry(store, ret.cacheId.s) - now = 3599999

\* C18 as stated: with window.localStorage there, a getItem(k), of version
\* 1.3.1 or of version 1.2, that finds the value string of k absent returns
\* result = false with the error "Cache key undefined" and not an expired
\* error, whatever type and expire strings are stored; exists(k) returns
\* false; neither call changes the store.
C18_MissingValueMissingEntry ==
  [][(lsExists /\ ret'.cacheId.kind = "string"
      /\ ~ValuePresent(store, ret'.cacheId.s))
     => (/\ ret'.op \in {"get", "get12"}
            => (/\ ~ret'.raised
                /\ ~ret'.myData.result
                /\ ret'.myData.error = ErrUndefined
                /\ store' = store)
         /\ ret'.op = "exists"
            => (~ret'.val /\ store' = store))]_vars

\* C19 the versions agree: on one window.localStorage that is there and
\* never raises, with one clock, both versions derive the same three keys;
\* whenever one version runs setItem or removeItem, the other version run
\* with the same arguments on the same store leaves the same store and
\* returns the same value; whenever one runs getItem(k), the other returns
\* the same result flag and the same data and leaves the same store. So any
\* sequence of setItem and removeItem calls leaves the same store under
\* either version, and an entry written by one is read back by the other.
C19_VersionsAgree ==
  [][/\ \A c \in VersionCids : prepareCids(c) = _prepareCids(c)
     /\ ret'.op = "set"
          => setItem12(store, ret'.cacheId, ret'.data, ret'.expire, now)
               = [store |-> store', val |-> ret'.val, raised |-> ret'.raised]
     /\ ret'.op = "set12"
          => setItem(store, lsExists, ret'.cacheId, ret'.data, ret'.expire, now, 0)
               = [store |-> store', val |-> ret'.val, raised |-> ret'.raised]
     /\ ret'.op = "remove"
          => (removeItemStore12(store, ret'.cacheId.s) = store' /\ ret'.val)
     /\ ret'.op = "remove12"
          => (/\ removeItemStore(store, lsExists, ret'.cacheId.s, 0) = store'
              /\ removeItemReturn(lsExists, 0) = ret'.val)
     /\ ret'.op = "get"
          => (/\ getItem12(store, ret'.cacheId.s, now).myData.result
                   = ret'.myData.result
              /\ getItem12(store, ret'.cacheId.s, now).myData.data
                   = ret'.myData.data
              /\ getItem12(store, ret'.cacheId.s, now).raised = ret'.raised
              /\ getItem12(store, ret'.cacheId.s, now).store = store')
     /\ ret'.op = "get12"
          => (/\ getItem(store, lsExists, ret'.cacheId.s, now, 0).myData.result
                   = ret'.myData.result
              /\ getItem(store, lsExists, ret'.cacheId.s, now, 0).myData.data
                   = ret'.myData.data
              /\ getItem(store, lsExists, ret'.cacheId.s, now, 0).raised
                   = ret'.raised
              /\ getItem(store, lsExists, ret'.cacheId.s, now, 0).store
                   = store')]_vars

\* C19 witness: getItem of version 1.2 has returned the object that setItem
\* of version 1.3.1 stored.
C19_Witness ==
  /\ ret.op = "get12"
  /\ ret.cacheId = Str(<<"a">>)
  /\ ret.myData.result
  /\ ret.myData.data = EmptyObj
  /\ LastSetOf(<<"a">>).set
  /\ LastSetOf(<<"a">>).by = "1.3.1"
  /\ LastSetOf(<<"a">>).data = EmptyObj

====
